---- MODULE Spec2Model ----
(***************************************************************************)
(* Model of the LCREE inventory core: the production-commit transaction    *)
(* (production/views.py), the order receipt (orders/views.py) and the tool *)
(* checkout (tools/views.py), run as concurrent requests against one       *)
(* relational database with row-level write locks and READ COMMITTED       *)
(* visibility.                                                             *)
(*                                                                         *)
(* Database model.  The persisted state is what committed transactions     *)
(* wrote.  A request's transaction keeps its uncommitted writes in tx[p];  *)
(* they become the persisted state when the `with transaction.atomic()`    *)
(* block is left without an exception (a `return` inside the block leaves  *)
(* it normally, so it commits) and are dropped when an exception leaves    *)
(* it.  select_for_update() and every UPDATE take the row's write lock,    *)
(* which is held until the transaction ends; a plain SELECT takes none and *)
(* reads the committed row.  F('col') - n is the database-side decrement   *)
(* of the locked row, and the attribute afterwards denotes the stored      *)
(* value.  OilBatch.save() recomputes cost_per_ml = cost_total / qty_ml    *)
(* on every save of a batch whose cost_total is not zero, so the decrement *)
(* of a batch also rewrites its cost_per_ml, and fails when the new        *)
(* quantity is zero.                                                       *)
(*                                                                         *)
(* Units: oil in 1/100 ml, material stock in whole units, money of         *)
(* two-decimal columns in cents, of four-decimal columns in 1/10000, and   *)
(* the unrounded cost sums of a commit in 1/1000000.                       *)
(***************************************************************************)
EXTENDS Integers, Sequences, FiniteSets, TLC

(***************************************************************************)
(* Bounds of the model                                                     *)
(***************************************************************************)
\* largest qty a production-commit request carries
MaxQty == 2
\* largest qty a tool-scan request carries
MaxToolQty == 2
\* largest amount a call of OilBatch.consume takes, in half millilitres
MaxConsume == 2

(***************************************************************************)
(* Requests (one call each) and the rows they work on                      *)
(***************************************************************************)
Commits == {"c1", "c2"}
Receivers == {"r1", "r2"}
Tools == {"t1"}
Procs == Commits \cup Receivers \cup Tools

None == "none"

Batches == {1, 2}
Materials == {1, 2}
Containers == {1, 2, 3}
Orders == {1, 2, 3, 4, 5}
Items == {1, 2, 3, 4, 5, 6, 7, 8}

\* Container.fill_volume_ml
fill_volume_ml(c) == IF c = 1 THEN 2 ELSE 1

\* Container.loss_factor_oil_percent
loss_factor_oil_percent(c) == IF c = 2 THEN 50 ELSE 0

\* Recipe.objects.get(container_id=..., active=True) finds a row
HasActiveRecipe(c) == c \in {1, 2}

\* recipe.components.all(): the RecipeComponent rows of the container's recipe
RecipeComponents(c) ==
    IF c = 1
    THEN << [component_kind |-> "PLACEHOLDER_OIL", material |-> 0, qty_required |-> 0],
            [component_kind |-> "PACKAGING_BOTTLE", material |-> 1, qty_required |-> 1],
            [component_kind |-> "OTHER", material |-> 2, qty_required |-> 1] >>
    ELSE << [component_kind |-> "OTHER", material |-> 2, qty_required |-> 1],
            [component_kind |-> "PACKAGING_BOTTLE", material |-> 1, qty_required |-> 1],
            [component_kind |-> "PLACEHOLDER_OIL", material |-> 0, qty_required |-> 0] >>

\* Material.category
MaterialCategory(m) == IF m = 2 THEN "TOOL" ELSE "PACKAGING_BOTTLE"

\* OilBatch.received_at, as a rank: batch 2 is the newer lot
received_at(b) == b

\* OilBatch.cost_total, in cents: batch 1 was bought, batch 2 came free of charge
oil_cost_total(b) == IF b = 1 THEN 300 ELSE 0

\* Order.shipping_cost and Order.customs_cost, in cents
shipping_cost(o) == IF o = 1 THEN 40 ELSE IF o = 5 THEN 1 ELSE 0
customs_cost(o) == IF o = 2 THEN 10 ELSE IF o = 5 THEN 3 ELSE 0

\* The OrderItem rows: order 1 has two MATERIAL lines, order 2 a MATERIAL line
\* and an OILBATCH line, order 3 a MATERIAL line whose target does not exist,
\* order 4 a line of no value, order 5 two MATERIAL lines of equal value, so
\* that its costs of 0.01 and 0.03 do not split into whole cents.  qty in whole
\* units, unit_cost in cents.
OrderItem(i) ==
    CASE i = 1 -> [order |-> 1, target_type |-> "MATERIAL", target_id |-> 1, qty |-> 2, unit_cost |-> 50]
      [] i = 2 -> [order |-> 1, target_type |-> "MATERIAL", target_id |-> 2, qty |-> 1, unit_cost |-> 300]
      [] i = 3 -> [order |-> 2, target_type |-> "MATERIAL", target_id |-> 2, qty |-> 1, unit_cost |-> 100]
      [] i = 4 -> [order |-> 2, target_type |-> "OILBATCH", target_id |-> 1, qty |-> 100, unit_cost |-> 1]
      [] i = 5 -> [order |-> 3, target_type |-> "MATERIAL", target_id |-> 3, qty |-> 1, unit_cost |-> 100]
      [] i = 6 -> [order |-> 4, target_type |-> "MATERIAL", target_id |-> 1, qty |-> 1, unit_cost |-> 0]
      [] i = 7 -> [order |-> 5, target_type |-> "MATERIAL", target_id |-> 1, qty |-> 1, unit_cost |-> 50]
      [] OTHER -> [order |-> 5, target_type |-> "MATERIAL", target_id |-> 2, qty |-> 1, unit_cost |-> 50]

(***************************************************************************)
(* Helpers                                                                 *)
(***************************************************************************)
EmptyFn == [x \in {} |-> 0]

Min(a, b) == IF a < b THEN a ELSE b

RECURSIVE SumSeq(_)
SumSeq(s) == IF s = <<>> THEN 0 ELSE Head(s) + SumSeq(Tail(s))

RECURSIVE NewestFirst(_)
\* the batches of the finite set S as a sequence, latest received_at first
NewestFirst(S) ==
    IF S = {} THEN <<>>
    ELSE LET x == CHOOSE y \in S : \A z \in S : received_at(z) <= received_at(y)
         IN <<x>> \o NewestFirst(S \ {x})

SeqToSet(s) == {s[k] : k \in 1..Len(s)}

VARIABLES
    oil_qty,        \* OilBatch.qty_ml of each batch (persisted)
    oil_status,     \* OilBatch.status of each batch (persisted)
    oil_cpm,        \* OilBatch.cost_per_ml of each batch, in 1/10000 (persisted)
    mat_stock,      \* Material.stock_qty (persisted)
    mat_cost,       \* Material.cost_per_unit (persisted)
    productions,    \* the Production rows (persisted)
    usages,         \* the ProductionComponentUsage rows (persisted)
    produced_items, \* the ProducedItem rows (persisted)
    sales,          \* the Sale rows (persisted)
    item_alloc,     \* OrderItem.allocated_shipping + allocated_customs (persisted)
    item_effective, \* OrderItem.effective_cost_per_unit, in 1/10000 (persisted)
    order_received, \* Order.received_at is set (persisted)
    audit,          \* the AuditLog rows (persisted)
    tool_usages,    \* the ToolUsage rows (persisted)
    holder,         \* the transaction holding each row's write lock
    pc,             \* where each request stands
    args,           \* the request's input
    result,         \* the response of a finished request
    seen,           \* commit: the evaluated oil_batches queryset (batch -> qty_ml read)
    idx,            \* position in the loop over recipe components / order items
    rd,             \* receipt: the Material instance read by Material.objects.get
    acc,            \* commit: the locals oil_cost_total and material_cost_total, in 1/1000000
    tx              \* the transaction's uncommitted writes

persisted == << oil_qty, oil_status, oil_cpm, mat_stock, mat_cost, productions, usages,
                produced_items, sales, item_alloc, item_effective, order_received, audit, tool_usages >>

vars == << oil_qty, oil_status, oil_cpm, mat_stock, mat_cost, productions, usages,
           produced_items, sales, item_alloc, item_effective, order_received, audit, tool_usages,
           holder, pc, args, result, seen, idx, rd, acc, tx >>

(***************************************************************************)
(* Rows, locks and transactions                                            *)
(***************************************************************************)
OilRow(b) == [kind |-> "OilBatch", id |-> b]
MatRow(m) == [kind |-> "Material", id |-> m]
ItemRow(i) == [kind |-> "OrderItem", id |-> i]
Rows == {OilRow(b) : b \in Batches} \cup {MatRow(m) : m \in Materials}
            \cup {ItemRow(i) : i \in Items}

EmptyTx == [oil |-> EmptyFn, cpm |-> EmptyFn, mat |-> EmptyFn, prods |-> {}, usages |-> {},
            alloc |-> EmptyFn, eff |-> EmptyFn, received |-> {}, audit |-> {}, tools |-> {}]

NoCost == [oil |-> 0, mat |-> 0]

NoArgs == [container |-> 0, qty |-> 0, ids |-> <<>>, order |-> 0, material |-> 0]

\* a row lock can be taken by p: nobody else holds it
Free(row, p) == holder[row] \in {None, p}

\* all locks of p are released when its transaction ends
Released(p) == [r \in Rows |-> IF holder[r] = p THEN None ELSE holder[r]]

\* the atomic block is left without an exception: the writes t become persisted
CommitTx(p, t) ==
    /\ oil_qty' = [b \in Batches |-> IF b \in DOMAIN t.oil THEN t.oil[b] ELSE oil_qty[b]]
    /\ oil_cpm' = [b \in Batches |-> IF b \in DOMAIN t.cpm THEN t.cpm[b] ELSE oil_cpm[b]]
    /\ mat_stock' = [m \in Materials |-> IF m \in DOMAIN t.mat THEN t.mat[m].stock ELSE mat_stock[m]]
    /\ mat_cost' = [m \in Materials |-> IF m \in DOMAIN t.mat THEN t.mat[m].cost ELSE mat_cost[m]]
    /\ productions' = productions \cup t.prods
    /\ usages' = usages \cup t.usages
    /\ item_alloc' = [i \in Items |-> IF i \in DOMAIN t.alloc THEN t.alloc[i] ELSE item_alloc[i]]
    /\ item_effective' = [i \in Items |-> IF i \in DOMAIN t.eff THEN t.eff[i] ELSE item_effective[i]]
    /\ order_received' = [o \in Orders |-> order_received[o] \/ o \in t.received]
    /\ audit' = audit \cup t.audit
    /\ tool_usages' = tool_usages \cup t.tools
    /\ UNCHANGED << oil_status, produced_items, sales >>
    /\ holder' = Released(p)
    /\ tx' = [tx EXCEPT ![p] = EmptyTx]

\* the exception is swallowed inside the block: the writes made so far commit
RollbackTxSwallowed(p) ==
    /\ CommitTx(p, tx[p])

\* an exception leaves the atomic block: every write of the transaction is dropped
RollbackTx(p) ==
    /\ UNCHANGED persisted
    /\ holder' = Released(p)
    /\ tx' = [tx EXCEPT ![p] = EmptyTx]

\* the request returns its response
Respond(p, r) ==
    /\ pc' = [pc EXCEPT ![p] = "done"]
    /\ result' = [result EXCEPT ![p] = r]

(***************************************************************************)
(* Production commit: ProductionCommitView.post                            *)
(***************************************************************************)
\* n / d rounded to the nearest integer, ties to even: a Decimal stored in a
\* column of fewer decimal places
RoundDiv(n, d) ==
    LET q == n \div d
        r == n % d
    IN IF 2 * r < d THEN q
       ELSE IF 2 * r > d THEN q + 1
       ELSE IF q % 2 = 0 THEN q ELSE q + 1

IdLists == {<<1>>, <<2>>, <<1, 2>>, <<2, 1>>}

\* total_oil_required, in 1/100 ml
total_oil_required(c, q) == fill_volume_ml(c) * (100 + loss_factor_oil_percent(c)) * q

\* the queryset filters on the ids alone
oil_batchesAnyStatus(ids) ==
    NewestFirst({b \in Batches : b \in SeqToSet(ids)})

\* the rows of OilBatch.objects.select_for_update().filter(id__in=ids, status='AVAILABLE'),
\* in the model's default ordering ['-received_at']
oil_batches(ids) ==
    NewestFirst({b \in Batches : b \in SeqToSet(ids) /\ oil_status[b] = "AVAILABLE"})

\* the sufficiency check asks only whether any oil is there
InsufficientOilAnyOil(available, required) == available <= 0

\* available_oil < total_oil_required
InsufficientOil(available, required) == available < required

RECURSIVE OilLoopStale(_, _, _)
\* the usage row is written from the instance as it was read, not as stored
OilLoopStale(batches, qty, remaining) ==
    IF batches = <<>> \/ remaining <= 0 THEN <<>>
    ELSE LET b == Head(batches)
             oil_to_use == Min(qty[b], remaining)
         IN << [batch |-> b, qty_used |-> oil_to_use,
                before_stock |-> qty[b] + oil_to_use,
                after_stock |-> qty[b]] >>
            \o OilLoopStale(Tail(batches), qty, remaining - oil_to_use)

RECURSIVE OilLoopOverdraw(_, _, _)
\* the loop takes all that is still needed from each batch, without min()
OilLoopOverdraw(batches, qty, remaining) ==
    IF batches = <<>> \/ remaining <= 0 THEN <<>>
    ELSE LET b == Head(batches)
             oil_to_use == remaining
         IN << [batch |-> b, qty_used |-> oil_to_use,
                before_stock |-> (qty[b] - oil_to_use) + oil_to_use,
                after_stock |-> qty[b] - oil_to_use] >>
            \o OilLoopOverdraw(Tail(batches), qty, remaining - oil_to_use)

RECURSIVE OilLoop(_, _, _)
\* the oil consumption loop over the evaluated queryset: one record per batch used
OilLoop(batches, qty, remaining) ==
    IF batches = <<>> \/ remaining <= 0 THEN <<>>
    ELSE LET b == Head(batches)
             oil_to_use == Min(qty[b], remaining)
         IN << [batch |-> b, qty_used |-> oil_to_use,
                before_stock |-> (qty[b] - oil_to_use) + oil_to_use,
                after_stock |-> qty[b] - oil_to_use] >>
            \o OilLoop(Tail(batches), qty, remaining - oil_to_use)

\* OilBatch.save() sets cost_per_ml = cost_total / qty_ml when cost_total is
\* not zero; qty_ml is the expression F('qty_ml') - oil_to_use here, so the
\* database divides by the new quantity and fails when that is zero
SaveFails(b, after) == oil_cost_total(b) # 0 /\ after = 0

\* OilBatch.cost_per_ml as stored by that save(), in 1/10000: a four-decimal column
cost_per_ml(b, after, old) ==
    IF oil_cost_total(b) # 0 /\ after > 0
    THEN RoundDiv(oil_cost_total(b) * 10000, after)
    ELSE old

\* the non-oil components of the recipe, in the order the loop meets them
MaterialComponents(c) ==
    SelectSeq(RecipeComponents(c), LAMBDA k : k.component_kind # "PLACEHOLDER_OIL")

\* material.stock_qty < qty_needed
InsufficientMaterial(stock, needed) == stock < needed

\* the row of material m as transaction p sees it
MatSeen(p, m) ==
    IF m \in DOMAIN tx[p].mat THEN tx[p].mat[m]
    ELSE [stock |-> mat_stock[m], cost |-> mat_cost[m]]

CommitStart(p) ==
    /\ pc[p] = "idle"
    /\ \E c \in Containers, q \in 1..MaxQty, ids \in IdLists :
        /\ args' = [args EXCEPT ![p] = [NoArgs EXCEPT !.container = c, !.qty = q, !.ids = ids]]
        /\ IF HasActiveRecipe(c)
           THEN /\ pc' = [pc EXCEPT ![p] = "lock_oil"]
                /\ UNCHANGED result
           ELSE Respond(p, "Error500")
    /\ UNCHANGED << persisted, holder, seen, idx, rd, acc, tx >>

\* the batches of the queryset not yet locked and read
OilToLock(p) ==
    SelectSeq(oil_batches(args[p].ids), LAMBDA b : b \notin DOMAIN seen[p])

CommitLockOil(p) ==
    /\ pc[p] = "lock_oil"
    /\ OilToLock(p) # <<>>
    /\ LET b == Head(OilToLock(p))
       IN /\ Free(OilRow(b), p)
          /\ holder' = [holder EXCEPT ![OilRow(b)] = p]
          /\ seen' = [seen EXCEPT ![p] = (b :> oil_qty[b]) @@ seen[p]]
    /\ UNCHANGED << persisted, pc, args, result, idx, rd, acc, tx >>

\* the Production row as Production.objects.create() writes it: the cost
\* columns take their default, 0
NewProduction(p) ==
    [id |-> p, status |-> "READY", qty |-> args[p].qty, container |-> args[p].container,
     oil_cost_used |-> 0, non_oil_cost_used |-> 0, total_production_cost |-> 0]

\* the sufficiency check, Production.objects.create() and the oil loop; the
\* batch rows are locked since they were read, so oil_cpm is what the
\* instances carry
CommitCheckOil(p) ==
    /\ pc[p] = "lock_oil"
    /\ OilToLock(p) = <<>>
    /\ LET batches == oil_batches(args[p].ids)
           required == total_oil_required(args[p].container, args[p].qty)
           available_oil == SumSeq([k \in 1..Len(batches) |-> seen[p][batches[k]]])
           used == OilLoop(batches, seen[p], required)
           saved(k) == cost_per_ml(used[k].batch, used[k].after_stock, oil_cpm[used[k].batch])
       IN IF InsufficientOil(available_oil, required)
          THEN /\ CommitTx(p, tx[p])
               /\ Respond(p, "InsufficientOil")
               /\ UNCHANGED << idx, acc >>
          ELSE IF \E k \in 1..Len(used) : SaveFails(used[k].batch, used[k].after_stock)
          THEN /\ RollbackTx(p)
               /\ Respond(p, "Error500")
               /\ UNCHANGED << idx, acc >>
          ELSE /\ tx' = [tx EXCEPT ![p] =
                    [@ EXCEPT
                       !.prods = {NewProduction(p)},
                       !.oil = [b \in {used[k].batch : k \in 1..Len(used)} |->
                                  (CHOOSE u \in SeqToSet(used) : u.batch = b).after_stock],
                       !.cpm = [b \in {used[k].batch : k \in 1..Len(used)} |->
                                  saved(CHOOSE k \in 1..Len(used) : used[k].batch = b)],
                       !.usages = {[production |-> p, content_type |-> "OilBatch",
                                    object_id |-> used[k].batch,
                                    qty_used |-> used[k].qty_used,
                                    before_stock |-> used[k].before_stock,
                                    after_stock |-> used[k].after_stock,
                                    unit_cost_at_use |-> saved(k),
                                    cost_total_at_use |-> RoundDiv(used[k].qty_used * saved(k), 10000)]
                                      : k \in 1..Len(used)}]]
               /\ acc' = [acc EXCEPT ![p] =
                            [oil |-> SumSeq([k \in 1..Len(used) |-> used[k].qty_used * saved(k)]),
                             mat |-> 0]]
               /\ pc' = [pc EXCEPT ![p] = "materials"]
               /\ idx' = [idx EXCEPT ![p] = 1]
               /\ UNCHANGED << persisted, holder, result >>
    /\ UNCHANGED << args, seen, rd >>

CommitMaterial(p) ==
    /\ pc[p] = "materials"
    /\ idx[p] <= Len(MaterialComponents(args[p].container))
    /\ LET component == MaterialComponents(args[p].container)[idx[p]]
           m == component.material
           qty_needed == component.qty_required * args[p].qty
           material == MatSeen(p, m)
       IN /\ Free(MatRow(m), p)
          /\ IF InsufficientMaterial(material.stock, qty_needed)
             THEN /\ CommitTx(p, tx[p])
                  /\ Respond(p, "InsufficientMaterial")
                  /\ UNCHANGED << idx, acc >>
             ELSE /\ holder' = [holder EXCEPT ![MatRow(m)] = p]
                  /\ tx' = [tx EXCEPT ![p] =
                       [@ EXCEPT
                          !.mat = (m :> [stock |-> material.stock - qty_needed,
                                         cost |-> material.cost]) @@ @,
                          !.usages = @ \cup
                             {[production |-> p, content_type |-> "Material",
                               object_id |-> m, qty_used |-> qty_needed,
                               before_stock |-> (material.stock - qty_needed) + qty_needed,
                               after_stock |-> material.stock - qty_needed,
                               unit_cost_at_use |-> material.cost,
                               cost_total_at_use |-> RoundDiv(qty_needed * material.cost, 100)]}]]
                  /\ acc' = [acc EXCEPT ![p].mat = @ + qty_needed * material.cost * 100]
                  /\ idx' = [idx EXCEPT ![p] = @ + 1]
                  /\ UNCHANGED << persisted, pc, result >>
    /\ UNCHANGED << args, seen, rd >>

\* the Production row as production.save() writes it after the loops: each
\* cost goes into its two-decimal column
DoneProduction(p) ==
    [NewProduction(p) EXCEPT
        !.status = "DONE",
        !.oil_cost_used = RoundDiv(acc[p].oil, 10000),
        !.non_oil_cost_used = RoundDiv(acc[p].mat, 10000),
        !.total_production_cost = RoundDiv(acc[p].oil + acc[p].mat, 10000)]

CommitFinishProduction(p) ==
    /\ pc[p] = "materials"
    /\ idx[p] > Len(MaterialComponents(args[p].container))
    /\ tx' = [tx EXCEPT ![p].prods = {DoneProduction(p)}]
    /\ pc' = [pc EXCEPT ![p] = "items"]
    /\ UNCHANGED << persisted, holder, args, result, seen, idx, rd, acc >>

\* total_cost_per_item is computed, then the loop over range(qty) calls
\* secrets.choices, which the secrets module does not have: AttributeError in
\* the first iteration, caught by `except Exception` after the atomic block
\* rolled back.
CommitProduceItems(p) ==
    /\ pc[p] = "items"
    /\ RollbackTx(p)
    /\ Respond(p, "Error500")
    /\ UNCHANGED << args, seen, idx, rd, acc >>

(***************************************************************************)
(* Order receipt: OrderViewSet.receive                                     *)
(***************************************************************************)
RECURSIVE Ascending(_)
\* the ids of the finite set S in ascending order
Ascending(S) ==
    IF S = {} THEN <<>>
    ELSE LET x == CHOOSE y \in S : \A z \in S : y <= z
         IN <<x>> \o Ascending(S \ {x})

\* order.items.all()
OrderItems(o) == Ascending({i \in Items : OrderItem(i).order = o})

\* item.qty * item.unit_cost, in cents
item_value(i) == OrderItem(i).qty * OrderItem(i).unit_cost

\* total_items_value
total_items_value(o) ==
    SumSeq([k \in 1..Len(OrderItems(o)) |-> item_value(OrderItems(o)[k])])

\* every line is given the whole order-level cost
AllocatedWhole(cost, i) == cost

\* the order-level cost is split by the quantities of the lines, not their values
AllocatedByQty(cost, i) ==
    LET lines == OrderItems(OrderItem(i).order)
    IN RoundDiv(cost * OrderItem(i).qty,
                SumSeq([k \in 1..Len(lines) |-> OrderItem(lines[k]).qty]))

\* the share of an order-level cost the item gets, as stored (cents)
Allocated(cost, i) ==
    RoundDiv(cost * item_value(i), total_items_value(OrderItem(i).order))

\* item.effective_cost_per_unit as item.save() stores it, in 1/10000: the
\* item's value plus its unrounded shares of shipping and customs, by item.qty
effective_cost_per_unit(i) ==
    LET o == OrderItem(i).order
        total == total_items_value(o)
    IN RoundDiv(100 * (item_value(i) * total
                        + (shipping_cost(o) + customs_cost(o)) * item_value(i)),
                total * OrderItem(i).qty)

\* the material takes the cost of the received line, whatever its old stock cost
MovingAverageNewOnly(material, i) == effective_cost_per_unit(i)

\* Material.cost_per_unit after the receipt of item i into a row read as
\* material: (old_total_cost + new_total_cost) / total_qty, in 1/10000, where
\* new_total_cost = item.qty * item.effective_cost_per_unit is the item's value
\* plus its unrounded shares of shipping and customs
MovingAverage(material, i) ==
    LET o == OrderItem(i).order
        total == total_items_value(o)
        total_qty == material.stock + OrderItem(i).qty
    IN IF total_qty > 0
       THEN RoundDiv(material.stock * material.cost * total
                       + 100 * (item_value(i) * total
                                + (shipping_cost(o) + customs_cost(o)) * item_value(i)),
                     total_qty * total)
       ELSE material.cost

\* the receipt does not look at received_at
AlreadyReceivedUnchecked(o) == FALSE

\* `if order.received_at:` on the instance loaded by get_object()
AlreadyReceived(o) == order_received[o]

ReceiveStart(r) ==
    /\ pc[r] = "idle"
    /\ \E o \in Orders :
        /\ args' = [args EXCEPT ![r] = [NoArgs EXCEPT !.order = o]]
        /\ IF AlreadyReceived(o)
           THEN /\ Respond(r, "AlreadyReceived")
                /\ UNCHANGED idx
           ELSE IF total_items_value(o) = 0
           THEN /\ Respond(r, "InvalidOrder")
                /\ UNCHANGED idx
           ELSE /\ pc' = [pc EXCEPT ![r] = "item"]
                /\ idx' = [idx EXCEPT ![r] = 1]
                /\ UNCHANGED result
    /\ UNCHANGED << persisted, holder, seen, rd, acc, tx >>

\* item.save() with the allocation, then the lookup of the target: a missing
\* Material or OilBatch raises, and OilBatch.objects.create() raises too, since
\* it gives no theoretical_volume_ml, a column that is NOT NULL without default
ReceiveItem(r) ==
    /\ pc[r] = "item"
    /\ idx[r] <= Len(OrderItems(args[r].order))
    /\ LET i == OrderItems(args[r].order)[idx[r]]
           item == OrderItem(i)
       IN /\ Free(ItemRow(i), r)
          /\ IF item.target_type = "MATERIAL" /\ item.target_id \in Materials
             THEN /\ holder' = [holder EXCEPT ![ItemRow(i)] = r]
                  /\ tx' = [tx EXCEPT
                              ![r].alloc =
                                (i :> [allocated_shipping |-> Allocated(shipping_cost(item.order), i),
                                       allocated_customs |-> Allocated(customs_cost(item.order), i)]) @@ @,
                              ![r].eff = (i :> effective_cost_per_unit(i)) @@ @]
                  /\ rd' = [rd EXCEPT ![r] = MatSeen(r, item.target_id)]
                  /\ pc' = [pc EXCEPT ![r] = "mat_save"]
                  /\ UNCHANGED << persisted, result >>
             ELSE /\ RollbackTx(r)
                  /\ Respond(r, "Error500")
                  /\ UNCHANGED rd
    /\ UNCHANGED << args, seen, idx, acc >>

\* material.save() in _process_material_receipt: writes the values computed
\* from the instance read before
ReceiveMaterialSave(r) ==
    /\ pc[r] = "mat_save"
    /\ LET i == OrderItems(args[r].order)[idx[r]]
           m == OrderItem(i).target_id
       IN /\ Free(MatRow(m), r)
          /\ holder' = [holder EXCEPT ![MatRow(m)] = r]
          /\ tx' = [tx EXCEPT ![r].mat =
                      (m :> [stock |-> rd[r].stock + OrderItem(i).qty,
                             cost |-> MovingAverage(rd[r], i)]) @@ @]
    /\ pc' = [pc EXCEPT ![r] = "item"]
    /\ idx' = [idx EXCEPT ![r] = @ + 1]
    /\ UNCHANGED << persisted, args, result, seen, rd, acc >>

ReceiveFinish(r) ==
    /\ pc[r] = "item"
    /\ idx[r] > Len(OrderItems(args[r].order))
    /\ CommitTx(r, [tx[r] EXCEPT
                      !.received = @ \cup {args[r].order},
                      !.audit = @ \cup {[action |-> "ORDER_RECEIVE", subject_id |-> args[r].order,
                                         request |-> r]}])
    /\ Respond(r, "Success")
    /\ UNCHANGED << args, seen, idx, rd, acc >>

(***************************************************************************)
(* Tool checkout: ToolScanView.post                                        *)
(***************************************************************************)
\* Material.objects.get(sku_or_barcode=..., category='TOOL', is_deleted=False) finds m
IsTool(m) == m \in Materials /\ MaterialCategory(m) = "TOOL"

ToolStart(t) ==
    /\ pc[t] = "idle"
    /\ \E m \in Materials, q \in 1..MaxToolQty :
        /\ args' = [args EXCEPT ![t] = [NoArgs EXCEPT !.material = m, !.qty = q]]
        /\ IF IsTool(m)
           THEN /\ pc' = [pc EXCEPT ![t] = "lock"]
                /\ UNCHANGED result
           ELSE Respond(t, "NotFound")
    /\ UNCHANGED << persisted, holder, seen, idx, rd, acc, tx >>

ToolLock(t) ==
    /\ pc[t] = "lock"
    /\ LET m == args[t].material
           material == MatSeen(t, m)
       IN /\ Free(MatRow(m), t)
          /\ IF InsufficientMaterial(material.stock, args[t].qty)
             THEN /\ CommitTx(t, tx[t])
                  /\ Respond(t, "InsufficientMaterial")
             ELSE /\ holder' = [holder EXCEPT ![MatRow(m)] = t]
                  /\ tx' = [tx EXCEPT ![t] =
                       [@ EXCEPT
                          !.mat = (m :> [stock |-> material.stock - args[t].qty,
                                         cost |-> material.cost]) @@ @,
                          !.tools = @ \cup {[material |-> m, qty_used |-> args[t].qty,
                                             request |-> t]},
                          !.audit = @ \cup {[action |-> "TOOL_CHECKOUT", subject_id |-> m,
                                             request |-> t]}]]
                  /\ pc' = [pc EXCEPT ![t] = "commit"]
                  /\ UNCHANGED << persisted, result >>
    /\ UNCHANGED << args, seen, idx, rd, acc >>

ToolCommit(t) ==
    /\ pc[t] = "commit"
    /\ CommitTx(t, tx[t])
    /\ Respond(t, "Success")
    /\ UNCHANGED << args, seen, idx, rd, acc >>

(***************************************************************************)
(* OilBatch.consume, called on a batch as it is stored                     *)
(***************************************************************************)
\* `return False` for a batch that is not AVAILABLE or holds less than
\* amount_ml; else qty_ml and status are saved with update_fields=['qty_ml',
\* 'status']: save() recomputes cost_per_ml on the instance, but the UPDATE
\* does not write it
consume(b, amount_ml) ==
    /\ holder[OilRow(b)] = None
    /\ oil_status[b] = "AVAILABLE"
    /\ amount_ml <= oil_qty[b]
    /\ oil_qty' = [oil_qty EXCEPT ![b] = @ - amount_ml]
    /\ oil_status' = [oil_status EXCEPT ![b] =
                         IF oil_qty[b] - amount_ml <= 0 THEN "EXHAUSTED" ELSE @]
    /\ UNCHANGED << oil_cpm, mat_stock, mat_cost, productions, usages, produced_items,
                    sales, item_alloc, item_effective, order_received, audit, tool_usages,
                    holder, pc, args, result, seen, idx, rd, acc, tx >>

(***************************************************************************)
(* Lock waits and the database's deadlock detection                        *)
(***************************************************************************)
NoRow == [kind |-> "none", id |-> 0]

\* the row lock the request asks for next, or NoRow
Needs(p) ==
    IF p \in Commits /\ pc[p] = "lock_oil" /\ OilToLock(p) # <<>>
    THEN OilRow(Head(OilToLock(p)))
    ELSE IF p \in Commits /\ pc[p] = "materials"
              /\ idx[p] <= Len(MaterialComponents(args[p].container))
    THEN MatRow(MaterialComponents(args[p].container)[idx[p]].material)
    ELSE IF p \in Receivers /\ pc[p] = "item" /\ idx[p] <= Len(OrderItems(args[p].order))
    THEN ItemRow(OrderItems(args[p].order)[idx[p]])
    ELSE IF p \in Receivers /\ pc[p] = "mat_save"
    THEN MatRow(OrderItem(OrderItems(args[p].order)[idx[p]]).target_id)
    ELSE IF p \in Tools /\ pc[p] = "lock"
    THEN MatRow(args[p].material)
    ELSE NoRow

\* p waits for a lock that q holds
WaitsFor(p, q) == Needs(p) # NoRow /\ q # p /\ holder[Needs(p)] = q

RECURSIVE Reaches(_, _, _, _)
\* from p the holder q is reached by at most n waits, all of them inside S
Reaches(p, q, n, S) ==
    /\ n > 0
    /\ \E x \in S : /\ WaitsFor(p, x)
                    /\ (x = q \/ Reaches(x, q, n - 1, S))

\* p is part of a cycle of lock waits among the requests of S
InCycle(p, S) == p \in S /\ Reaches(p, p, Cardinality(S), S)

\* the database breaks a deadlock by failing one transaction of the cycle; the
\* error reaches `except Exception` after the atomic block rolled back
DeadlockAbort(p) ==
    /\ InCycle(p, Procs)
    /\ RollbackTx(p)
    /\ Respond(p, "Error500")
    /\ UNCHANGED << args, seen, idx, rd, acc >>

(***************************************************************************)
(* Specification                                                           *)
(***************************************************************************)
\* the stock the requests meet: OilBatch.qty_ml in 1/100 ml, Material.stock_qty
InitialOil == (1 :> 250) @@ (2 :> 150)
InitialStock == (1 :> 1) @@ (2 :> 2)
\* OilBatch.cost_per_ml in 1/10000: cost_total / qty_ml for batch 1
InitialCostPerMl == (1 :> 12000) @@ (2 :> 30)

Init ==
    /\ oil_qty = InitialOil
    /\ oil_status \in [Batches -> {"AVAILABLE", "LOCKED"}]
    /\ oil_cpm = InitialCostPerMl
    /\ mat_stock = InitialStock
    /\ mat_cost = (1 :> 10000) @@ (2 :> 20000)
    /\ productions = {}
    /\ usages = {}
    /\ produced_items = {}
    /\ sales = {}
    /\ item_alloc = [i \in Items |-> [allocated_shipping |-> 0, allocated_customs |-> 0]]
    /\ item_effective = [i \in Items |-> 100 * OrderItem(i).unit_cost]
    /\ order_received = [o \in Orders |-> FALSE]
    /\ audit = {}
    /\ tool_usages = {}
    /\ holder = [r \in Rows |-> None]
    /\ pc = [p \in Procs |-> "idle"]
    /\ args = [p \in Procs |-> NoArgs]
    /\ result = [p \in Procs |-> None]
    /\ seen = [p \in Procs |-> EmptyFn]
    /\ idx = [p \in Procs |-> 0]
    /\ rd = [p \in Procs |-> [stock |-> 0, cost |-> 0]]
    /\ acc = [p \in Procs |-> NoCost]
    /\ tx = [p \in Procs |-> EmptyTx]

\* one production commit, one order receipt and one tool checkout side by side
Next ==
    \/ CommitStart("c1")
    \/ CommitLockOil("c1")
    \/ CommitCheckOil("c1")
    \/ CommitMaterial("c1")
    \/ CommitFinishProduction("c1")
    \/ CommitProduceItems("c1")
    \/ ReceiveStart("r1")
    \/ ReceiveItem("r1")
    \/ ReceiveMaterialSave("r1")
    \/ ReceiveFinish("r1")
    \/ ToolStart("t1")
    \/ ToolLock("t1")
    \/ ToolCommit("t1")
    \/ \E p \in {"c1", "r1", "t1"} : DeadlockAbort(p)

Spec == Init /\ [][Next]_vars

\* two concurrent production commits
NextCommits ==
    \/ \E p \in Commits : CommitStart(p)
    \/ \E p \in Commits : CommitLockOil(p)
    \/ \E p \in Commits : CommitCheckOil(p)
    \/ \E p \in Commits : CommitMaterial(p)
    \/ \E p \in Commits : CommitFinishProduction(p)
    \/ \E p \in Commits : CommitProduceItems(p)
    \/ \E p \in Commits : DeadlockAbort(p)

SpecCommits == Init /\ [][NextCommits]_vars

\* two concurrent order receipts
NextReceipts ==
    \/ \E r \in Receivers : ReceiveStart(r)
    \/ \E r \in Receivers : ReceiveItem(r)
    \/ \E r \in Receivers : ReceiveMaterialSave(r)
    \/ \E r \in Receivers : ReceiveFinish(r)

SpecReceipts == Init /\ [][NextReceipts]_vars

\* a production commit next to calls of OilBatch.consume
NextConsume ==
    \/ CommitStart("c1")
    \/ CommitLockOil("c1")
    \/ CommitCheckOil("c1")
    \/ CommitMaterial("c1")
    \/ CommitFinishProduction("c1")
    \/ CommitProduceItems("c1")
    \/ \E b \in Batches, n \in 1..MaxConsume : consume(b, 50 * n)

SpecConsume == Init /\ [][NextConsume]_vars

(***************************************************************************)
(* Properties                                                              *)
(***************************************************************************)
Finishes(p) == result[p] = None /\ result'[p] # None

CommitErrors == {"InsufficientOil", "InsufficientMaterial", "Error500"}

C2_StockNonNegative ==
    /\ \A b \in Batches : oil_qty[b] >= 0
    /\ \A m \in Materials : mat_stock[m] >= 0

\* a commit drained a batch to zero, a checkout took the last tools and the
\* receipt of order 1 went through
C2_Witness ==
    /\ \E b \in Batches : oil_qty[b] = 0
    /\ mat_stock[2] = 0
    /\ tool_usages # {}
    /\ order_received[1]

\* C3: of two commits on the same single batch that holds exactly enough oil
\* for one of them, exactly one succeeds and the other fails with the
\* insufficient-oil error, and the batch is not decremented by both.
C3_ExactlyOneCommitSucceeds ==
    \A p, q \in Commits : \A b \in Batches :
        ( /\ p # q
          /\ pc[p] = "done" /\ pc[q] = "done"
          /\ args[p].ids = <<b>> /\ args[q].ids = <<b>>
          /\ oil_status[b] = "AVAILABLE"
          /\ HasActiveRecipe(args[p].container) /\ HasActiveRecipe(args[q].container)
          /\ total_oil_required(args[p].container, args[p].qty) = InitialOil[b]
          /\ total_oil_required(args[q].container, args[q].qty) = InitialOil[b] )
        => /\ {result[p], result[q]} = {"Success", "InsufficientOil"}
           /\ oil_qty[b] = 0

\* the oil the AVAILABLE candidate batches of the request hold together
AvailableOil(p) ==
    LET S == oil_batches(args[p].ids)
    IN SumSeq([k \in 1..Len(S) |-> oil_qty[S[k]]])

\* C4: a commit whose AVAILABLE candidate batches hold less than oil_required
\* fails with the insufficient-oil error and persists nothing.
C4_InsufficientOilAborts ==
    [][\A p \in Commits :
          ( /\ pc[p] = "lock_oil" /\ OilToLock(p) = <<>>
            /\ AvailableOil(p) < total_oil_required(args[p].container, args[p].qty)
            /\ pc'[p] # pc[p] )
          => (result'[p] = "InsufficientOil" /\ UNCHANGED persisted)]_vars

\* a commit was refused for lack of oil and nothing was written
C4_Witness ==
    /\ \E p \in Commits : result[p] = "InsufficientOil"
    /\ productions = {} /\ usages = {}
    /\ oil_qty = InitialOil /\ mat_stock = InitialStock

RECURSIVE SumUsed(_)
\* the qty_used of a set of usage rows, added up
SumUsed(S) ==
    IF S = {} THEN 0
    ELSE LET u == CHOOSE x \in S : TRUE IN u.qty_used + SumUsed(S \ {u})

\* the stored quantity of the resource a usage row refers to
Ledger(content_type, id) ==
    IF content_type = "OilBatch" THEN oil_qty[id] ELSE mat_stock[id]

C6_ReceiptAtMostOnce ==
    \A o \in Orders :
        /\ Cardinality({r \in Receivers : args[r].order = o /\ result[r] = "Success"}) <= 1
        /\ Cardinality({a \in audit : a.action = "ORDER_RECEIVE" /\ a.subject_id = o}) <= 1

\* C7: a receive call that finds the order already received is rejected and
\* changes nothing of the persisted state.
C7_SecondReceiptRejected ==
    [][\A r \in Receivers :
          (pc[r] = "idle" /\ pc'[r] # "idle" /\ order_received[args'[r].order])
          => (pc'[r] = "done" /\ result'[r] = "AlreadyReceived" /\ UNCHANGED persisted)]_vars

\* a receipt went through and a later call on the same order was rejected
C7_Witness ==
    \E r, q \in Receivers :
        /\ result[r] = "Success" /\ result[q] = "AlreadyReceived"
        /\ args[r].order = args[q].order

NoAllocation == [allocated_shipping |-> 0, allocated_customs |-> 0]

\* the lines of order o are applied: each carries its share of shipping and customs
LinesApplied(o) ==
    \A i \in Items : OrderItem(i).order = o =>
        item_alloc[i] = [allocated_shipping |-> Allocated(shipping_cost(o), i),
                         allocated_customs |-> Allocated(customs_cost(o), i)]

\* no line of order o carries an allocation
LinesUntouched(o) == \A i \in Items : OrderItem(i).order = o => item_alloc[i] = NoAllocation

ReceiveErrors == {"Error500", "InvalidOrder", "AlreadyReceived"}

\* C8: received_at is set exactly when the lines of the order are applied; a
\* receipt that fails on a line persists no allocation, no stock or cost change
\* and leaves received_at null.
C8_ReceiptAllOrNothing ==
    /\ [](\A o \in Orders :
            /\ order_received[o] => LinesApplied(o)
            /\ ~order_received[o] => LinesUntouched(o))
    /\ []((\A o \in Orders : ~order_received[o])
            => (mat_stock = InitialStock /\ audit = {}))
    /\ [][\A r \in Receivers :
            (Finishes(r) /\ result'[r] \in ReceiveErrors) => UNCHANGED persisted]_vars

\* order 1 is received while a receipt of order 2 failed on its second line,
\* after the first line had been written
C8_Witness ==
    /\ order_received[1]
    /\ \E r \in Receivers : args[r].order = 2 /\ result[r] = "Error500"
    /\ LinesApplied(1) /\ LinesUntouched(2)
    /\ mat_stock[1] = InitialStock[1] + 2

RECURSIVE InCallerOrder(_, _, _)
\* what the commit would store if it took the oil from the AVAILABLE batches in
\* the order of oil_batch_ids: batch -> remaining quantity
InCallerOrder(ids, qty, remaining) ==
    IF ids = <<>> \/ remaining <= 0 THEN EmptyFn
    ELSE IF oil_status[Head(ids)] # "AVAILABLE"
    THEN InCallerOrder(Tail(ids), qty, remaining)
    ELSE LET give == Min(qty[Head(ids)], remaining)
         IN (Head(ids) :> qty[Head(ids)] - give)
              @@ InCallerOrder(Tail(ids), qty, remaining - give)

\* C10: the oil is taken from the candidate batches in the order of
\* oil_batch_ids, each giving min(remaining, still needed), so that a later
\* batch is touched only when the earlier ones are drained.
C10_OilInCallerOrder ==
    \A p \in Commits :
        pc[p] = "materials"
        => tx[p].oil = InCallerOrder(args[p].ids, oil_qty,
                                     total_oil_required(args[p].container, args[p].qty))

\* C11: a commit that brings an OilBatch to quantity zero sets its status to
\* EXHAUSTED with the same write, so that no OilBatch row, stored or written
\* by a running commit, has quantity 0 and status AVAILABLE.
C11_ExhaustedAtZero ==
    /\ \A b \in Batches : ~(oil_qty[b] = 0 /\ oil_status[b] = "AVAILABLE")
    /\ \A p \in Commits : \A b \in DOMAIN tx[p].oil :
          ~(tx[p].oil[b] = 0 /\ oil_status[b] = "AVAILABLE")

ProductionRows == productions \cup UNION {tx[p].prods : p \in Commits}

C14_OneSalePerCommit ==
    /\ [][\A p \in Commits :
            Finishes(p) =>
               IF pc[p] = "items"
               THEN /\ Cardinality(sales' \ sales) = 1
                    /\ \A sale \in sales' \ sales : sale.qty = args[p].qty
               ELSE sales' = sales]_vars
    /\ [](Cardinality(sales)
            = Cardinality({production \in productions : production.status = "DONE"}))

\* C15: a commit of quantity q whose Production is DONE creates exactly q
\* ProducedItem rows for it, each of status SOLD, with the serials 1..q.
C15_ItemsWithSerials ==
    [][\A p \in Commits :
          (pc[p] = "items" /\ pc'[p] # "items") =>
             LET rows == {item \in produced_items' : item.production = p}
             IN /\ Cardinality(rows) = args[p].qty
                /\ {item.serial : item \in rows} = 1..args[p].qty
                /\ \A item \in rows : item.status = "SOLD"]_vars

\* C17: the creation of the ProducedItem rows ends either in success, when a
\* collision-free identifier was found within the retries, or with
\* IdentifierExhausted, when every retry collided.
C17_IdentifierRetry ==
    [][\A p \in Commits :
          (pc[p] = "items" /\ pc'[p] = "done")
          => result'[p] \in {"Success", "IdentifierExhausted"}]_vars

\* C18: a commit that took all its oil and materials reports success and its
\* Production, Sale and stock decrements persist, whether or not the label
\* print goes through.
C18_PrintFailureSwallowed ==
    [][\A p \in Commits :
          (pc[p] = "items" /\ pc'[p] = "done") =>
             /\ result'[p] = "Success"
             /\ tx[p].prods \subseteq productions'
             /\ sales' # sales
             /\ \A b \in DOMAIN tx[p].oil : oil_qty'[b] = tx[p].oil[b]
             /\ \A m \in DOMAIN tx[p].mat : mat_stock'[m] = tx[p].mat[m].stock]_vars

\* C19: a commit for a container without an active Recipe fails with
\* RecipeNotFound, a 400, and changes no state.
C19_RecipeNotFound ==
    [][\A p \in Commits :
          (pc[p] = "idle" /\ pc'[p] # "idle" /\ ~HasActiveRecipe(args'[p].container))
          => (result'[p] = "RecipeNotFound" /\ UNCHANGED persisted)]_vars

Abs(x) == IF x < 0 THEN 0 - x ELSE x

\* the stored allocated_shipping of the lines of order o, added up
SumAllocatedShipping(o) ==
    SumSeq([k \in 1..Len(OrderItems(o)) |-> item_alloc[OrderItems(o)[k]].allocated_shipping])

\* the stored allocated_customs of the lines of order o, added up
SumAllocatedCustoms(o) ==
    SumSeq([k \in 1..Len(OrderItems(o)) |-> item_alloc[OrderItems(o)[k]].allocated_customs])

\* C20: for every received Order the stored allocated_shipping of its lines add
\* up to Order.shipping_cost and the stored allocated_customs to
\* Order.customs_cost, up to the rounding of the lines: half a cent for each.
C20_AllocationSums ==
    \A o \in Orders :
        order_received[o] =>
           /\ 2 * Abs(SumAllocatedShipping(o) - shipping_cost(o)) <= Len(OrderItems(o))
           /\ 2 * Abs(SumAllocatedCustoms(o) - customs_cost(o)) <= Len(OrderItems(o))

\* order 1, whose costs split into whole cents, and order 5, whose costs do
\* not, are both received
C20_Witness ==
    /\ order_received[1] /\ order_received[5]
    /\ SumAllocatedShipping(1) = shipping_cost(1) /\ shipping_cost(1) > 0
    /\ SumAllocatedShipping(5) # shipping_cost(5)
    /\ SumAllocatedCustoms(5) # customs_cost(5)

\* the lines of order o
LinesOf(o) == {i \in Items : OrderItem(i).order = o}

\* C21: on receipt each line i of value_i = qty_i * unit_cost_i is stored with
\* allocated_shipping_i = shipping_cost * value_i / (sum of the values), with
\* allocated_customs_i likewise, and with effective_cost_per_unit_i =
\* (value_i + its share of shipping + its share of customs) / qty_i, each to
\* the precision of its column; two lines valued 100 and 300 of an order with
\* shipping cost 40 get 10 and 30.
C21_AllocationFormula ==
    /\ \A o \in Orders : \A i \in LinesOf(o) :
          order_received[o] =>
             LET total == total_items_value(o)
                 value == OrderItem(i).qty * OrderItem(i).unit_cost
             IN /\ 2 * Abs(item_alloc[i].allocated_shipping * total - shipping_cost(o) * value)
                     <= total
                /\ 2 * Abs(item_alloc[i].allocated_customs * total - customs_cost(o) * value)
                     <= total
                /\ 2 * Abs(item_effective[i] * OrderItem(i).qty * total
                             - 100 * value * (total + shipping_cost(o) + customs_cost(o)))
                     <= OrderItem(i).qty * total
    /\ order_received[1] => /\ item_alloc[1].allocated_shipping = 10
                            /\ item_alloc[2].allocated_shipping = 30

\* order 1 of the example is received, its lines at the effective unit costs
\* 0.5500 and 3.3000, and order 5, whose shares are not whole cents
C21_Witness ==
    /\ order_received[1] /\ order_received[5]
    /\ item_value(1) = 100 /\ item_value(2) = 300 /\ shipping_cost(1) = 40
    /\ item_effective[1] = 5500 /\ item_effective[2] = 33000
    /\ item_effective[7] = 5200
    /\ item_alloc[7].allocated_customs = 2

\* the materials the lines of order o are received into
TargetsOf(o) == {OrderItem(i).target_id : i \in LinesOf(o)}

\* C22: receiving a MATERIAL line of quantity q at effective cost c into a
\* material read with stock s and cost_per_unit k writes the cost_per_unit
\* (s * k + q * c) / (s + q), to the four decimals of the column, and the stock
\* s + q, and writes no other material; the receipt changes the stored stock
\* and cost of no material that is not a target of its lines.
C22_MovingAverage ==
    [][\A r \in Receivers :
          /\ (pc[r] = "mat_save" /\ pc'[r] = "item") =>
                LET i == OrderItems(args[r].order)[idx[r]]
                    o == OrderItem(i).order
                    m == OrderItem(i).target_id
                    q == OrderItem(i).qty
                    s == rd[r].stock
                    k == rd[r].cost
                    total == total_items_value(o)
                    \* q * c * total, c in 1/10000
                    qc == 100 * q * OrderItem(i).unit_cost
                             * (total + shipping_cost(o) + customs_cost(o))
                IN /\ tx'[r].mat[m].stock = s + q
                   /\ 2 * Abs(tx'[r].mat[m].cost * (s + q) * total - (s * k * total + qc))
                        <= (s + q) * total
                   /\ \A other \in Materials \ {m} :
                         /\ other \in DOMAIN tx'[r].mat <=> other \in DOMAIN tx[r].mat
                         /\ other \in DOMAIN tx[r].mat => tx'[r].mat[other] = tx[r].mat[other]
          /\ (Finishes(r) /\ result'[r] = "Success") =>
                \A other \in Materials \ TargetsOf(args[r].order) :
                    mat_stock'[other] = mat_stock[other] /\ mat_cost'[other] = mat_cost[other]]_vars

\* order 1 is received: material 1 (1 unit at 1.0000) took 2 units at 0.5500,
\* material 2 (2 units at 2.0000) took 1 unit at 3.3000
C22_Witness ==
    /\ order_received[1]
    /\ mat_stock[1] = 3 /\ mat_cost[1] = 7000
    /\ mat_stock[2] = 3 /\ mat_cost[2] = 24333
    /\ \A r \in Receivers : pc[r] = "done"

\* every line of order o names a Material or an OilBatch that exists
TargetsExist(o) ==
    \A i \in LinesOf(o) :
        IF OrderItem(i).target_type = "MATERIAL"
        THEN OrderItem(i).target_id \in Materials
        ELSE OrderItem(i).target_id \in Batches

\* C23: the receipt of an order that has OILBATCH lines, all lines naming
\* existing targets, succeeds (creating one new AVAILABLE OilBatch for each
\* OILBATCH line) unless the order was received before.
C23_OilBatchPerLine ==
    \A r \in Receivers :
        ( /\ pc[r] = "done"
          /\ TargetsExist(args[r].order)
          /\ \E i \in LinesOf(args[r].order) : OrderItem(i).target_type = "OILBATCH" )
        => result[r] \in {"Success", "AlreadyReceived"}

\* C24: within a commit no OilBatch and no Material is decremented while the
\* sufficiency check of a material of the recipe is still to come.
C24_ValidateBeforeMutate ==
    \A p \in Commits :
        (pc[p] = "materials" /\ idx[p] <= Len(MaterialComponents(args[p].container)))
        => (tx[p].oil = EmptyFn /\ tx[p].mat = EmptyFn)

\* C25: a transaction that has written an OilBatch quantity or a Material stock
\* or cost holds that row's write lock, and a request that has read a Material
\* row to compute the value it is about to write holds the lock already.
C25_WritesUnderLock ==
    /\ \A p \in Procs :
          /\ \A b \in DOMAIN tx[p].oil : holder[OilRow(b)] = p
          /\ \A m \in DOMAIN tx[p].mat : holder[MatRow(m)] = p
    /\ \A r \in Receivers :
          pc[r] = "mat_save"
          => holder[MatRow(OrderItem(OrderItems(args[r].order)[idx[r]]).target_id)] = r

\* C27: after every step that changes the stored quantity of an OilBatch and
\* leaves it above zero, the stored cost_per_ml is cost_total / qty_ml, to the
\* four decimals of the column.
C27_CostPerMl ==
    [][\A b \in Batches :
          (oil_qty'[b] # oil_qty[b] /\ oil_qty'[b] > 0)
          => 2 * Abs(oil_cpm'[b] * oil_qty'[b] - oil_cost_total(b) * 10000) <= oil_qty'[b]]_vars

\* the batches commit p lists that are stored as AVAILABLE
AvailableListed(p) ==
    {b \in Batches : b \in SeqToSet(args[p].ids) /\ oil_status[b] = "AVAILABLE"}

\* the oil stored in the batches of S
StoredOil(S) ==
    LET s == NewestFirst(S) IN SumSeq([k \in 1..Len(s) |-> oil_qty[s[k]]])

\* C28: a commit passes its oil check exactly when the AVAILABLE batches among
\* the listed ids hold the required oil, it decrements only such batches, and
\* the step that ends it changes quantity and status of no other batch.
C28_OnlyAvailable ==
    [][\A p \in Commits :
          LET required == total_oil_required(args[p].container, args[p].qty)
          IN /\ (pc[p] = "lock_oil" /\ pc'[p] = "materials")
                => /\ StoredOil(AvailableListed(p)) >= required
                   /\ DOMAIN tx'[p].oil # {}
                   /\ DOMAIN tx'[p].oil \subseteq AvailableListed(p)
             /\ (pc[p] = "lock_oil" /\ pc'[p] = "done" /\ result'[p] = "InsufficientOil")
                => StoredOil(AvailableListed(p)) < required
             /\ (pc[p] \notin {"idle", "done"} /\ pc'[p] = "done")
                => \A b \in Batches \ AvailableListed(p) :
                      oil_qty'[b] = oil_qty[b] /\ oil_status'[b] = oil_status[b]]_vars

\* a commit has decremented a batch in its transaction while another listed
\* batch is not AVAILABLE
C28_Witness ==
    \E p \in Commits :
        /\ pc[p] = "materials"
        /\ DOMAIN tx[p].oil # {}
        /\ \E b \in SeqToSet(args[p].ids) : oil_status[b] # "AVAILABLE"

\* what the received orders brought of material m
ReceivedQty(m) ==
    SumUsed({[line |-> i, qty_used |-> OrderItem(i).qty] :
               i \in {j \in Items : /\ order_received[OrderItem(j).order]
                                     /\ OrderItem(j).target_type = "MATERIAL"
                                     /\ OrderItem(j).target_id = m}})

\* what the stored usage rows of commits and tool checkouts took of material m
ConsumedQty(m) ==
    SumUsed({u \in usages : u.content_type = "Material" /\ u.object_id = m})
    + SumUsed({u \in tool_usages : u.material = m})

\* C29: once the requests have ended, the stock of every material is its
\* initial stock plus what the receipts brought minus what commits and tool
\* checkouts took.
C29_NoLostUpdate ==
    (\A p \in Procs : pc[p] \in {"idle", "done"})
    => \A m \in Materials :
          mat_stock[m] = InitialStock[m] + ReceivedQty(m) - ConsumedQty(m)

RECURSIVE SumCostAtUse(_)
\* the cost_total_at_use of a set of usage rows, added up
SumCostAtUse(S) ==
    IF S = {} THEN 0
    ELSE LET u == CHOOSE x \in S : TRUE IN u.cost_total_at_use + SumCostAtUse(S \ {u})

====
